---- MODULE Spec2Model ----
(***************************************************************************)
(* The plugin execution engine of beet/toolchain/pipeline.py:              *)
(* GenericPipeline (require, resolve, run) and Task (advance).             *)
(*                                                                         *)
(* The engine is single threaded but re-entrant: a plugin body running     *)
(* inside Task.advance calls ctx.require, which runs other plugin bodies   *)
(* inside nested Task.advance calls.  The model keeps the Python call      *)
(* stack in `frames` and lets every loop iteration, plugin statement and   *)
(* exception unwinding step be one action.                                 *)
(*                                                                         *)
(* Plugins are inputs.  What a plugin body does next (require something,   *)
(* yield, return, raise) is chosen when the body reaches that statement,   *)
(* and the argument list of a require/run call is an input stream: the     *)
(* spec a for loop takes next is chosen when the loop takes it.            *)
(* Plugin bodies do not catch the exceptions of their nested requires.     *)
(***************************************************************************)
EXTENDS Integers, Sequences, FiniteSets, TLC

\* The plugin callables that exist in the program under analysis.
Plugins == {"a", "b", "c"}

\* Largest number of suspensions (yields of plugin bodies) in the life of
\* the pipeline.
MaxYields == 3

\* Largest number of Task objects ever constructed (the engine itself
\* constructs at most one per plugin).
MaxTasks == 4

(***************************************************************************)
(* Plugin specifications (GenericPluginSpec = Union[GenericPlugin, str]).  *)
(* A callable spec is <<"fn", p>>; a string spec is <<"str", segments>>,   *)
(* the dotted path split at its dots.                                      *)
(***************************************************************************)
Fn(p) == <<"fn", p>>

StrSpecs == { <<"str", "mod_a">>,
              <<"str", "mod_a", "beet_default">>,
              <<"str", "mod_c">> }

Specs == {Fn(p) : p \in Plugins} \cup StrSpecs

\* The absent spec: the argument list is exhausted.
NoSpec == <<>>

\* isinstance(spec, str)
IsStr(spec) == spec[1] = "str"

\* GenericPipeline.default_symbol
default_symbol == "beet_default"

\* GenericPipeline.whitelist as configured for this pipeline.
whitelist == {"mod_a"}

\* The importable modules and their members.
Modules == [mod_a |-> [beet_default |-> "a"],
            mod_c |-> [beet_default |-> "c"]]

(***************************************************************************)
(* Exceptions.  type is the class, arg the constructor argument (a spec),  *)
(* cause the class of __cause__.                                           *)
(***************************************************************************)
NoExc == [type |-> "none", arg |-> NoSpec, cause |-> "none"]

\* class hierarchy below PipelineFallthroughException
FallthroughTypes == {"PipelineFallthroughException", "PluginError", "PluginImportError"}

PluginError(plugin, cause) ==
    [type |-> "PluginError", arg |-> Fn(plugin), cause |-> cause]

PluginImportError(spec, cause) ==
    [type |-> "PluginImportError", arg |-> spec, cause |-> cause]

\* What a plugin body can raise by itself.
Raisable == {"Exception", "PipelineFallthroughException"}

Raised(type) == [type |-> type, arg |-> NoSpec, cause |-> "none"]

(***************************************************************************)
(* beet.core.utils.import_from_string: the module part of the dotted path  *)
(* must be allowed by the whitelist and name a module; the member is the   *)
(* explicit one or the default member.                                     *)
(***************************************************************************)
import_from_string(spec) ==
    LET module == spec[2]
        member == IF Len(spec) >= 3 THEN spec[3] ELSE default_symbol
    IN  IF module \notin whitelist
           THEN [raised |-> "Exception", value |-> "none"]
        ELSE IF module \notin DOMAIN Modules
           THEN [raised |-> "Exception", value |-> "none"]
        ELSE IF member \notin DOMAIN Modules[module]
           THEN [raised |-> "Exception", value |-> "none"]
        ELSE [raised |-> "none", value |-> Modules[module][member]]

\* Mutation of resolve: the exception of the import is not wrapped.
resolveUnwrapped(spec) ==
    IF IsStr(spec)
       THEN LET r == import_from_string(spec)
            IN  IF r.raised = "none"
                   THEN [exc |-> NoExc, plugin |-> r.value]
                ELSE [exc |-> Raised(r.raised), plugin |-> "none"]
       ELSE [exc |-> NoExc, plugin |-> spec[2]]

\* GenericPipeline.resolve: the plugin, or the exception that leaves it.
resolve(spec) ==
    IF IsStr(spec)
       THEN LET r == import_from_string(spec)
            IN  IF r.raised = "none"
                   THEN [exc |-> NoExc, plugin |-> r.value]
                ELSE IF r.raised \in FallthroughTypes
                   THEN [exc |-> Raised(r.raised), plugin |-> "none"]
                ELSE [exc |-> PluginImportError(spec, r.raised), plugin |-> "none"]
       ELSE [exc |-> NoExc, plugin |-> spec[2]]

\* Mutations of AdvanceExcept: nothing is wrapped; everything is wrapped.
AdvanceNeverWraps(plugin, e) == e
AdvanceAlwaysWraps(plugin, e) == PluginError(plugin, e.type)

\* The except clauses of Task.advance: what leaves advance when e is raised
\* inside the try block of the task of `plugin`.
AdvanceExcept(plugin, e) ==
    IF e.type \in FallthroughTypes THEN e ELSE PluginError(plugin, e.type)

(***************************************************************************)
(* State.                                                                  *)
(***************************************************************************)
VARIABLES
    plugins,    \* GenericPipeline.plugins: the executed set
    tasks,      \* GenericPipeline.tasks: stack of suspended tasks (ids)
    taskObj,    \* the Task objects constructed so far, by id
    frames,     \* the call stack: run / require / advance frames
    exc,        \* the exception being propagated, or NoExc
    log,        \* ctx: the shared log; <<p, n>> is appended when the body
                \* of p starts (n = 0) or resumes after its n-th yield
    npush,      \* number of tasks.append calls so far
    fault,      \* history: the failure of the current top-level call
    failures,   \* history: some call on this pipeline has failed
    outcome,    \* history: how the last top-level call ended
    noted       \* history kept by WatchSpec only: the string specs require
                \* has resolved and the re-entrant requires it has skipped

vars == <<plugins, tasks, taskObj, frames, exc, log, npush, fault, failures,
          outcome, noted>>

NoFault == [kind |-> "none", who |-> NoSpec, at |-> 0, depth |-> 0]
NoOutcome == [api |-> "none", exc |-> NoExc, pending |-> NoSpec]

\* A call frame.  For run and require, `next` is the argument the for loop
\* is known to take next and `open` tells whether arguments not yet drawn
\* may follow; for advance, `task` is the task advanced.
Frame(kind, next, open, task) ==
    [kind |-> kind, next |-> next, open |-> open, task |-> task]

\* Task(plugin): iterator is None.  History fields: phase counts the yields
\* passed, st is the state of the body, stamp the time of the last push,
\* by/insetup the plugin body (and its phase) whose require made the task.
Task(plugin, by, insetup) ==
    [plugin |-> plugin, iterator |-> "None", phase |-> 0, st |-> "fresh",
     stamp |-> 0, by |-> by, insetup |-> insetup]

Top == frames[Len(frames)]
Pop(s) == SubSeq(s, 1, Len(s) - 1)

Init ==
    /\ plugins = {}
    /\ tasks = <<>>
    /\ taskObj = <<>>
    /\ frames = <<>>
    /\ exc = NoExc
    /\ log = <<>>
    /\ npush = 0
    /\ fault = NoFault
    /\ failures = FALSE
    /\ outcome = NoOutcome
    /\ noted = {}

(***************************************************************************)
(* Helpers of the actions.                                                 *)
(***************************************************************************)
ReplaceTop(s, f) == [s EXCEPT ![Len(s)] = f]

Running == frames # <<>> /\ exc = NoExc
Raising == frames # <<>> /\ exc # NoExc

\* Mutation of AlreadyExecuted: the membership test is lost.
NeverExecuted(plugin) == FALSE

\* `plugin in self.plugins`
AlreadyExecuted(plugin) == plugin \in plugins

\* Mutation of Identity: the executed set is keyed on the spec as given.
SpecIdentity(spec, plugin) == spec

\* What stands for a required spec in the executed set: the plugin that
\* resolve returned for it.
Identity(spec, plugin) == plugin

\* Mutation of MarkExecuted: the plugin is not added before its body runs.
NotMarked(plugin) == plugins

\* self.plugins.add(plugin)
MarkExecuted(plugin) == plugins \cup {plugin}

\* Mutations of PushTask: the task is inserted at the front; the task is
\* not kept at all.
PushFront(stack, t) == <<t>> \o stack
DropTask(stack, t) == stack

\* self.tasks.append(remaining_work)
PushTask(stack, t) == Append(stack, t)

\* Mutation of TasksPop: pop(0), the oldest task first.
TasksPopFirst(stack) == [task |-> Head(stack), rest |-> Tail(stack)]

\* self.tasks.pop(): the task returned and the list left
TasksPop(stack) ==
    [task |-> stack[Len(stack)], rest |-> SubSeq(stack, 1, Len(stack) - 1)]

\* Mutation of CallsPlugin: every advance calls the plugin again.
AlwaysCallsPlugin(t) == TRUE

\* The first lines of Task.advance: the plugin is called if and only if
\* the iterator is None, and the iterator is stored.
CallsPlugin(t) == t.iterator = "None"
Entered(t) == [t EXCEPT !.iterator = "iter", !.st = "running"]
LogMark(t) == <<t.plugin, IF CallsPlugin(t) THEN 0 ELSE t.phase>>

\* The plugin body whose statement made the call of the top frame, if any.
CallerTask ==
    IF Len(frames) >= 2 /\ frames[Len(frames) - 1].kind = "advance"
       THEN frames[Len(frames) - 1].task ELSE 0

\* Number of advance frames on the call stack.
RECURSIVE Depth(_)
Depth(s) == IF s = <<>> THEN 0
            ELSE (IF s[Len(s)].kind = "advance" THEN 1 ELSE 0) + Depth(Pop(s))

Fault(kind, who) == [kind |-> kind, who |-> who, at |-> Len(log), depth |-> Depth(frames)]

\* A top-level call ends: its result is recorded, with the argument the
\* call had not yet taken from its argument list (if any) when it returned.
Ended(api, e, pending) == [api |-> api, exc |-> e, pending |-> pending]

(***************************************************************************)
(* GenericPipeline.run                                                     *)
(***************************************************************************)
\* run(specs) is called on the idle pipeline.
RunCall ==
    /\ frames = <<>>
    /\ frames' = <<Frame("run", NoSpec, TRUE, 0)>>
    /\ fault' = NoFault
    /\ outcome' = NoOutcome
    /\ UNCHANGED <<plugins, tasks, taskObj, exc, log, npush, failures>>

\* for spec in specs: self.require(spec)
RunFor(spec) ==
    /\ Running /\ Top.kind = "run" /\ Top.open
    /\ frames' = Append(frames, Frame("require", spec, FALSE, 0))
    /\ UNCHANGED <<plugins, tasks, taskObj, exc, log, npush, fault, failures, outcome>>

\* specs is exhausted; while self.tasks: self.tasks.pop().advance(self.ctx)
RunWhile ==
    /\ Running /\ Top.kind = "run" /\ tasks # <<>>
    /\ LET id == TasksPop(tasks).task
       IN  /\ tasks' = TasksPop(tasks).rest
           /\ log' = Append(log, LogMark(taskObj[id]))
           /\ taskObj' = [taskObj EXCEPT ![id] = Entered(@)]
           /\ frames' = Append(ReplaceTop(frames, [Top EXCEPT !.open = FALSE]),
                               Frame("advance", NoSpec, FALSE, id))
    /\ UNCHANGED <<plugins, exc, npush, fault, failures, outcome>>

\* specs is exhausted and the stack is empty: run returns
RunReturn ==
    /\ Running /\ Top.kind = "run" /\ tasks = <<>>
    /\ frames' = Pop(frames)
    /\ outcome' = Ended("run", NoExc, NoSpec)
    /\ UNCHANGED <<plugins, tasks, taskObj, exc, log, npush, fault, failures>>

\* Mutation of RunUnwind: run swallows the exception and goes on.
RunUnwindSwallow ==
    /\ Raising /\ Top.kind = "run"
    /\ exc' = NoExc
    /\ UNCHANGED <<plugins, tasks, taskObj, frames, log, npush, fault, failures, outcome>>

\* run has no handler: the exception leaves it
RunUnwind ==
    /\ Raising /\ Top.kind = "run"
    /\ frames' = Pop(frames)
    /\ outcome' = Ended("run", exc, NoSpec)
    /\ exc' = NoExc
    /\ UNCHANGED <<plugins, tasks, taskObj, log, npush, fault, failures>>

(***************************************************************************)
(* GenericPipeline.require                                                 *)
(***************************************************************************)
\* The arguments the for loop of the top require frame can take next.
NextArgs == IF Top.next # NoSpec THEN {Top.next}
            ELSE IF Top.open THEN Specs ELSE {}

\* The arguments that can follow the one the loop has just taken.
RestArgs == IF Top.open THEN Specs \cup {NoSpec} ELSE {NoSpec}

\* The for loop has taken its argument.
Taken(f) == [f EXCEPT !.next = NoSpec]

\* require(*args) is called on the idle pipeline.
RequireCall ==
    /\ frames = <<>>
    /\ frames' = <<Frame("require", NoSpec, TRUE, 0)>>
    /\ fault' = NoFault
    /\ outcome' = NoOutcome
    /\ UNCHANGED <<plugins, tasks, taskObj, exc, log, npush, failures>>

\* plugin = self.resolve(spec) raises
RequireResolveRaises(spec) ==
    /\ Running /\ Top.kind = "require" /\ spec \in NextArgs
    /\ resolve(spec).exc # NoExc
    /\ exc' = resolve(spec).exc
    /\ fault' = Fault("resolve", spec)
    /\ failures' = TRUE
    /\ frames' = ReplaceTop(frames, Taken(Top))
    /\ UNCHANGED <<plugins, tasks, taskObj, log, npush, outcome>>

\* if plugin in self.plugins: return
RequireSkip(spec) ==
    /\ Running /\ Top.kind = "require" /\ spec \in NextArgs
    /\ resolve(spec).exc = NoExc
    /\ AlreadyExecuted(Identity(spec, resolve(spec).plugin))
    /\ frames' = Pop(frames)
    /\ IF Len(frames) = 1
          THEN \E rest \in RestArgs : outcome' = Ended("require", NoExc, rest)
          ELSE UNCHANGED outcome
    /\ UNCHANGED <<plugins, tasks, taskObj, exc, log, npush, fault, failures>>

\* Mutation of RequireExecute: the new task is queued on self.tasks and its
\* first advance is left to the loop of run.
RequireExecuteDeferred(spec) ==
    /\ Running /\ Top.kind = "require" /\ spec \in NextArgs
    /\ resolve(spec).exc = NoExc
    /\ ~AlreadyExecuted(Identity(spec, resolve(spec).plugin))
    /\ Len(taskObj) < MaxTasks
    /\ LET plugin == resolve(spec).plugin
           id == Len(taskObj) + 1
           t == IF CallerTask = 0 THEN Task(plugin, "none", FALSE)
                ELSE Task(plugin, taskObj[CallerTask].plugin,
                          taskObj[CallerTask].phase = 0)
       IN  /\ plugins' = MarkExecuted(Identity(spec, plugin))
           /\ taskObj' = Append(taskObj, [t EXCEPT !.stamp = npush + 1])
           /\ tasks' = PushTask(tasks, id)
           /\ npush' = npush + 1
           /\ frames' = ReplaceTop(frames, Taken(Top))
    /\ UNCHANGED <<exc, log, fault, failures, outcome>>

\* self.plugins.add(plugin); Task(plugin).advance(self.ctx) is entered
RequireExecute(spec) ==
    /\ Running /\ Top.kind = "require" /\ spec \in NextArgs
    /\ resolve(spec).exc = NoExc
    /\ ~AlreadyExecuted(Identity(spec, resolve(spec).plugin))
    /\ Len(taskObj) < MaxTasks
    /\ LET plugin == resolve(spec).plugin
           id == Len(taskObj) + 1
           t == IF CallerTask = 0 THEN Task(plugin, "none", FALSE)
                ELSE Task(plugin, taskObj[CallerTask].plugin,
                          taskObj[CallerTask].phase = 0)
       IN  /\ plugins' = MarkExecuted(Identity(spec, plugin))
           /\ log' = Append(log, LogMark(t))
           /\ taskObj' = Append(taskObj, Entered(t))
           /\ frames' = Append(ReplaceTop(frames, Taken(Top)),
                               Frame("advance", NoSpec, FALSE, id))
    /\ UNCHANGED <<tasks, exc, npush, fault, failures, outcome>>

\* Mutation of RequireReturn: before it returns, require resumes the tasks
\* on the stack the way run does.
RequireReturnDrains ==
    /\ Running /\ Top.kind = "require" /\ Top.next = NoSpec
    /\ IF tasks = <<>>
          THEN /\ frames' = Pop(frames)
               /\ outcome' = IF Len(frames) = 1 THEN Ended("require", NoExc, NoSpec)
                              ELSE outcome
               /\ UNCHANGED <<tasks, taskObj, log>>
          ELSE /\ tasks' = TasksPop(tasks).rest
               /\ log' = Append(log, LogMark(taskObj[TasksPop(tasks).task]))
               /\ taskObj' = [taskObj EXCEPT ![TasksPop(tasks).task] = Entered(@)]
               /\ frames' = Append(ReplaceTop(frames, [Top EXCEPT !.open = FALSE]),
                                   Frame("advance", NoSpec, FALSE, TasksPop(tasks).task))
               /\ UNCHANGED outcome
    /\ UNCHANGED <<plugins, exc, npush, fault, failures>>

\* the for loop is exhausted: require returns
RequireReturn ==
    /\ Running /\ Top.kind = "require" /\ Top.next = NoSpec
    /\ frames' = Pop(frames)
    /\ outcome' = IF Len(frames) = 1 THEN Ended("require", NoExc, NoSpec) ELSE outcome
    /\ UNCHANGED <<plugins, tasks, taskObj, exc, log, npush, fault, failures>>

\* require has no handler: the exception leaves it
RequireUnwind ==
    /\ Raising /\ Top.kind = "require"
    /\ frames' = Pop(frames)
    /\ IF Len(frames) = 1
          THEN outcome' = Ended("require", exc, NoSpec) /\ exc' = NoExc
          ELSE UNCHANGED <<outcome, exc>>
    /\ UNCHANGED <<plugins, tasks, taskObj, log, npush, fault, failures>>

(***************************************************************************)
(* Task.advance: the plugin body runs inside the try block.                *)
(***************************************************************************)
InBody == Running /\ Top.kind = "advance" /\ taskObj[Top.task].st = "running"

\* the body calls ctx.require(...)
PluginRequire ==
    /\ InBody
    /\ frames' = Append(frames, Frame("require", NoSpec, TRUE, 0))
    /\ UNCHANGED <<plugins, tasks, taskObj, exc, log, npush, fault, failures, outcome>>

\* the iterator produces an element: advance returns self, and the caller
\* (require or run) appends the remaining work to self.tasks
PluginYield ==
    /\ InBody
    /\ npush < MaxYields
    /\ taskObj' = [taskObj EXCEPT ![Top.task].st = "suspended",
                                  ![Top.task].phase = @ + 1,
                                  ![Top.task].stamp = npush + 1]
    /\ tasks' = PushTask(tasks, Top.task)
    /\ npush' = npush + 1
    /\ frames' = Pop(frames)
    /\ UNCHANGED <<plugins, exc, log, fault, failures, outcome>>

\* Mutation of PluginReturn: the caller appends the task without testing
\* what advance returned.
PluginReturnPushed ==
    /\ InBody
    /\ taskObj' = [taskObj EXCEPT ![Top.task].st = "done"]
    /\ tasks' = PushTask(tasks, Top.task)
    /\ frames' = Pop(frames)
    /\ UNCHANGED <<plugins, exc, log, npush, fault, failures, outcome>>

\* the iterator is exhausted: advance returns None
PluginReturn ==
    /\ InBody
    /\ taskObj' = [taskObj EXCEPT ![Top.task].st = "done"]
    /\ frames' = Pop(frames)
    /\ UNCHANGED <<plugins, tasks, exc, log, npush, fault, failures, outcome>>

\* Mutation of PluginRaise: the failure takes the plugin out of the
\* executed set again.
PluginRaiseRollback(type) ==
    /\ InBody
    /\ exc' = AdvanceExcept(taskObj[Top.task].plugin, Raised(type))
    /\ fault' = Fault(type, Fn(taskObj[Top.task].plugin))
    /\ failures' = TRUE
    /\ taskObj' = [taskObj EXCEPT ![Top.task].st = "failed"]
    /\ plugins' = plugins \ {taskObj[Top.task].plugin}
    /\ frames' = Pop(frames)
    /\ UNCHANGED <<tasks, log, npush, outcome>>

\* the body raises: the except clauses of advance decide what leaves it
PluginRaise(type) ==
    /\ InBody
    /\ exc' = AdvanceExcept(taskObj[Top.task].plugin, Raised(type))
    /\ fault' = Fault(type, Fn(taskObj[Top.task].plugin))
    /\ failures' = TRUE
    /\ taskObj' = [taskObj EXCEPT ![Top.task].st = "failed"]
    /\ frames' = Pop(frames)
    /\ UNCHANGED <<plugins, tasks, log, npush, outcome>>

\* a nested require raised inside the body: the same except clauses
AdvanceUnwind ==
    /\ Raising /\ Top.kind = "advance"
    /\ exc' = AdvanceExcept(taskObj[Top.task].plugin, exc)
    /\ taskObj' = [taskObj EXCEPT ![Top.task].st = "failed"]
    /\ frames' = Pop(frames)
    /\ UNCHANGED <<plugins, tasks, log, npush, fault, failures, outcome>>

Next ==
    \/ RunCall /\ UNCHANGED noted
    \/ \E spec \in Specs : RunFor(spec) /\ UNCHANGED noted
    \/ RunWhile /\ UNCHANGED noted
    \/ RunReturn /\ UNCHANGED noted
    \/ RunUnwind /\ UNCHANGED noted
    \/ RequireCall /\ UNCHANGED noted
    \/ \E spec \in Specs : RequireResolveRaises(spec) /\ UNCHANGED noted
    \/ \E spec \in Specs : RequireSkip(spec) /\ UNCHANGED noted
    \/ \E spec \in Specs : RequireExecute(spec) /\ UNCHANGED noted
    \/ RequireReturn /\ UNCHANGED noted
    \/ RequireUnwind /\ UNCHANGED noted
    \/ PluginRequire /\ UNCHANGED noted
    \/ PluginYield /\ UNCHANGED noted
    \/ PluginReturn /\ UNCHANGED noted
    \/ \E type \in Raisable : PluginRaise(type) /\ UNCHANGED noted
    \/ AdvanceUnwind /\ UNCHANGED noted

Spec == Init /\ [][Next]_vars

(***************************************************************************)
(* The failure-free pipeline with finite inputs, for termination.          *)
(***************************************************************************)
\* The specs whose resolution does not raise.
Resolvable == {spec \in Specs : resolve(spec).exc = NoExc}

\* The steps of a pipeline in which no plugin body raises and no
\* resolution fails.
NextNoFailure ==
    \/ RunCall /\ UNCHANGED noted
    \/ \E spec \in Resolvable : RunFor(spec) /\ UNCHANGED noted
    \/ RunWhile /\ UNCHANGED noted
    \/ RunReturn /\ UNCHANGED noted
    \/ RequireCall /\ UNCHANGED noted
    \/ \E spec \in Resolvable : RequireSkip(spec) /\ UNCHANGED noted
    \/ \E spec \in Resolvable : RequireExecute(spec) /\ UNCHANGED noted
    \/ RequireReturn /\ UNCHANGED noted
    \/ PluginRequire /\ UNCHANGED noted
    \/ PluginYield /\ UNCHANGED noted
    \/ PluginReturn /\ UNCHANGED noted

\* The interpreter runs the call in progress to its next step (there is one
\* thread and nothing preempts it); the specs of run are a finite iterable,
\* so its for loop ends; the body of a plugin reaches its next yield or
\* its end after finitely many statements.
Finiteness ==
    /\ WF_vars(NextNoFailure /\ frames # <<>>)
    /\ SF_vars((RunWhile \/ RunReturn) /\ UNCHANGED noted)
    /\ SF_vars((PluginYield \/ PluginReturn) /\ UNCHANGED noted)

LiveSpec == Init /\ [][NextNoFailure]_vars /\ Finiteness

(***************************************************************************)
(* The failure-free pipeline with a history of its requires.  `noted` is   *)
(* written by the two specifications below and by no other.                *)
(***************************************************************************)
\* The steps other than the loop iterations of require.
Unnoted ==
    \/ RunCall /\ UNCHANGED noted
    \/ \E spec \in Resolvable : RunFor(spec) /\ UNCHANGED noted
    \/ RunWhile /\ UNCHANGED noted
    \/ RunReturn /\ UNCHANGED noted
    \/ RequireCall /\ UNCHANGED noted
    \/ RequireReturn /\ UNCHANGED noted
    \/ PluginRequire /\ UNCHANGED noted
    \/ PluginYield /\ UNCHANGED noted
    \/ PluginReturn /\ UNCHANGED noted

\* The body of `plugin` is on the call stack: an advance of its task is in
\* progress.
OnCallStack(plugin) ==
    \E k \in DOMAIN frames :
        frames[k].kind = "advance" /\ taskObj[frames[k].task].plugin = plugin

\* The task constructed for `plugin`.
TaskOf(plugin) == CHOOSE id \in DOMAIN taskObj : taskObj[id].plugin = plugin

\* History of re-entrant requires: the last require that found its plugin
\* already executed while the body of that plugin was on the call stack,
\* made by that body itself ("direct") or by a body it called ("cycle"),
\* with the phase that body was in.
Reentry(spec) ==
    LET plugin == resolve(spec).plugin
    IN  IF OnCallStack(plugin)
           THEN {<<plugin,
                   IF taskObj[CallerTask].plugin = plugin THEN "direct" ELSE "cycle",
                   IF taskObj[TaskOf(plugin)].phase = 0 THEN "setup" ELSE "teardown">>}
           ELSE noted

ReentryNext ==
    \/ Unnoted
    \/ \E spec \in Resolvable : RequireSkip(spec) /\ noted' = Reentry(spec)
    \/ \E spec \in Resolvable : RequireExecute(spec) /\ UNCHANGED noted

ReentrySpec == Init /\ [][ReentryNext]_vars

\* History of aliases: <<"made", spec, plugin>> when a string spec makes the
\* task of its plugin, <<"skipped", spec, plugin>> when a string spec is
\* skipped whose plugin's task was made by another string spec.
Made(spec) ==
    IF IsStr(spec) THEN noted \cup {<<"made", spec, resolve(spec).plugin>>}
    ELSE noted

Aliased(spec) ==
    IF /\ IsStr(spec)
       /\ \E other \in StrSpecs \ {spec} :
              <<"made", other, resolve(spec).plugin>> \in noted
       THEN noted \cup {<<"skipped", spec, resolve(spec).plugin>>}
    ELSE noted

AliasNext ==
    \/ Unnoted
    \/ \E spec \in Resolvable : RequireSkip(spec) /\ noted' = Aliased(spec)
    \/ \E spec \in Resolvable : RequireExecute(spec) /\ noted' = Made(spec)

AliasSpec == Init /\ [][AliasNext]_vars

(***************************************************************************)
(* Properties.                                                             *)
(***************************************************************************)
TaskIds == DOMAIN taskObj

\* Number of times the body of p has been invoked.
Invocations(p) == Cardinality({k \in DOMAIN log : log[k] = <<p, 0>>})

\* The code of p after a suspension point has started to run.
Resumed(p) == \E k \in DOMAIN log : log[k][1] = p /\ log[k][2] >= 1

\* Position in the log of the first resumption of p (0 if there is none).
FirstResume(p) ==
    IF Resumed(p)
       THEN CHOOSE k \in DOMAIN log :
                /\ log[k][1] = p /\ log[k][2] >= 1
                /\ \A m \in 1..(k - 1) : ~(log[m][1] = p /\ log[m][2] >= 1)
       ELSE 0

\* Task id is being advanced: it has a frame on the call stack.
Advancing(id) ==
    \E k \in DOMAIN frames : frames[k].kind = "advance" /\ frames[k].task = id

\* Task j was made by a require in the setup phase of the body of task i.
SetupRequired(i, j) ==
    taskObj[j].by = taskObj[i].plugin /\ taskObj[j].insetup

\* The top-level call in progress, or the last one, is run.
InRun == IF frames = <<>> THEN outcome.api = "run" ELSE frames[1].kind = "run"

\* The exception as it leaves the place of the failure.
Original(f) ==
    CASE f.kind = "resolve" -> PluginImportError(f.who, "Exception")
      [] f.kind = "Exception" -> PluginError(f.who[2], "Exception")
      [] OTHER -> Raised(f.kind)

\* The exception of the current call: in flight, or as it left the call.
Escaping == IF frames = <<>> THEN outcome.exc ELSE exc

\* C1: over any sequence of require/run calls, the body of every plugin is
\* invoked at most once: exactly once if the plugin is in the executed set
\* (however often and from wherever it was required), never otherwise.
C1_InvokedOnce ==
    \A p \in Plugins : Invocations(p) = IF p \in plugins THEN 1 ELSE 0

\* C1 witness: a top-level require returned early on an argument whose
\* plugin "a" had been executed before; the body of "a" ran once.
C1_Witness ==
    /\ frames = <<>> /\ outcome.api = "require" /\ outcome.pending # NoSpec
    /\ plugins = {"a"} /\ Invocations("a") = 1

\* C2 as stated: when A's setup requires B and both suspend, B's teardown
\* starts before A's teardown.
C2_InnerTeardownFirst ==
    \A i, j \in TaskIds :
        (SetupRequired(i, j) /\ taskObj[i].phase >= 1 /\ taskObj[j].phase >= 1
            /\ Resumed(taskObj[i].plugin))
        => /\ Resumed(taskObj[j].plugin)
           /\ FirstResume(taskObj[j].plugin) < FirstResume(taskObj[i].plugin)

\* C2 amended: when a require in A's setup starts B and both suspend, A's
\* teardown starts before B's teardown, and A's task is finished by then.
C2_OuterTeardownFirst ==
    \A i, j \in TaskIds :
        (SetupRequired(i, j) /\ taskObj[i].phase >= 1 /\ taskObj[j].phase >= 1
            /\ Resumed(taskObj[j].plugin))
        => /\ Resumed(taskObj[i].plugin)
           /\ FirstResume(taskObj[i].plugin) < FirstResume(taskObj[j].plugin)
           /\ taskObj[i].st \in {"done", "failed"}

\* C2 witness: B was started in A's setup, both suspended, both resumed.
C2_Witness ==
    \E i, j \in TaskIds :
        /\ SetupRequired(i, j)
        /\ Resumed(taskObj[i].plugin) /\ Resumed(taskObj[j].plugin)
        /\ frames = <<>> /\ outcome = Ended("run", NoExc, NoSpec)

\* C3 as stated: while the teardown of P runs in a failure-free pipeline,
\* every plugin required in P's setup is done (setup and teardown).
C3_RequiredDoneBeforeTeardown ==
    \A i, j \in TaskIds :
        (Advancing(i) /\ taskObj[i].phase >= 1 /\ SetupRequired(i, j) /\ ~failures)
        => taskObj[j].st = "done"

\* C3 amended: while the teardown of P runs, every plugin started by a
\* require in P's setup has completed its setup phase and no more: it is
\* done if it never suspended, and otherwise it is still suspended and no
\* code after its suspension point has run.
C3_RequiredSetUpBeforeTeardown ==
    \A i, j \in TaskIds :
        (Advancing(i) /\ taskObj[i].phase >= 1 /\ SetupRequired(i, j))
        => /\ taskObj[j].st = IF taskObj[j].phase >= 1 THEN "suspended" ELSE "done"
           /\ ~Resumed(taskObj[j].plugin)

\* C3 witness: the teardown of P runs while a plugin started in P's setup
\* is suspended.
C3_Witness ==
    \E i, j \in TaskIds :
        /\ Advancing(i) /\ taskObj[i].phase >= 1 /\ SetupRequired(i, j)
        /\ taskObj[j].st = "suspended" /\ ~failures

\* C4: whenever the loop of run resumes a task, no task left on the stack
\* was pushed later than the resumed one.
C4_LastSuspendedFirstResumed ==
    [][ (/\ frames # <<>> /\ Top.kind = "run"
         /\ Len(frames') = Len(frames) + 1
         /\ frames'[Len(frames')].kind = "advance")
        => \A k \in DOMAIN tasks :
              taskObj[tasks[k]].stamp <= taskObj[frames'[Len(frames')].task].stamp
      ]_vars

\* C4 witness: run has just resumed a task started by a top-level spec while
\* a task started by another top-level spec stays suspended below it.
C4_Witness ==
    /\ Len(frames) = 2 /\ Top.kind = "advance" /\ frames[1].kind = "run"
    /\ taskObj[Top.task].by = "none" /\ taskObj[Top.task].st = "running"
    /\ tasks # <<>> /\ taskObj[tasks[1]].by = "none"
    /\ taskObj[tasks[1]].stamp < taskObj[Top.task].stamp

\* The setup phase of task id is complete: its first advance has returned.
SetupComplete(id) == taskObj[id].st \in {"suspended", "done", "failed"}

\* C5: whenever control is in run's for loop, between two top-level specs,
\* every task constructed so far has completed its setup phase; and whenever
\* the body of a plugin runs (control is back from its nested requires),
\* every task its requires have started has completed its setup phase
\* normally.
C5_SetupsNestedAndInOrder ==
    /\ (Running /\ Top.kind = "run") => \A id \in TaskIds : SetupComplete(id)
    /\ InBody =>
          \A id \in TaskIds :
              taskObj[id].by = taskObj[Top.task].plugin
              => taskObj[id].st \in {"suspended", "done"}

\* C5 witness: the second top-level spec of a run is in its setup phase; the
\* first one has suspended after its setup required a third plugin.
C5_Witness ==
    /\ Len(frames) = 3 /\ frames[1].kind = "run" /\ InBody
    /\ Len(taskObj) = 3
    /\ taskObj[1].by = "none" /\ taskObj[1].st = "suspended"
    /\ SetupRequired(1, 2) /\ taskObj[2].st = "suspended"
    /\ taskObj[3].by = "none" /\ taskObj[3].phase = 0

\* The pipeline has gone through the scenario of C6: "a" was started by a
\* top-level spec and never suspended, then "b" by a top-level spec; the
\* setup of "b" started "c", which never suspended; "b" suspended once;
\* nothing failed, nothing else was started, and run has returned.
C6_Scenario ==
    /\ frames = <<>> /\ outcome = Ended("run", NoExc, NoSpec) /\ ~failures
    /\ Len(taskObj) = 3
    /\ taskObj[1].plugin = "a" /\ taskObj[1].by = "none" /\ taskObj[1].phase = 0
    /\ taskObj[2].plugin = "b" /\ taskObj[2].by = "none" /\ taskObj[2].phase = 1
    /\ taskObj[3].plugin = "c" /\ SetupRequired(2, 3) /\ taskObj[3].phase = 0

\* C6: the scenario ends with the log a, b-setup, c, b-teardown and an
\* empty task stack.
C6_ScenarioLog ==
    C6_Scenario =>
        /\ log = << <<"a", 0>>, <<"b", 0>>, <<"c", 0>>, <<"b", 1>> >>
        /\ tasks = <<>>

\* C6 witness: the scenario has happened.
C6_Witness ==
    C6_Scenario /\ log = << <<"a", 0>>, <<"b", 0>>, <<"c", 0>>, <<"b", 1>> >>

\* C7: once a plugin body has raised a non-fallthrough exception inside
\* run, no plugin body starts or resumes any more in that call, the
\* exception in flight is the PluginError of exactly that plugin, and that
\* is what leaves run.
C7_PluginFailureAbortsRun ==
    (fault.kind = "Exception" /\ InRun)
    => /\ Len(log) = fault.at
       /\ Escaping = PluginError(fault.who[2], "Exception")

\* C7 witness: run has raised the PluginError of the first top-level spec's
\* plugin "a", which failed in its setup; nothing else was started.
C7_Witness ==
    /\ frames = <<>> /\ outcome.api = "run"
    /\ fault.kind = "Exception" /\ fault.who = Fn("a")
    /\ outcome.exc.type = "PluginError" /\ plugins = {"a"}

\* C8: the exception of a failure is the same in every frame it passes and
\* when it leaves the call: a PluginError naming the plugin whose body
\* raised, with the raised exception as cause (wrapped once); a
\* PluginImportError naming the spec; or the fallthrough exception itself.
C8_FailurePassesUnchanged ==
    fault.kind # "none" => Escaping = Original(fault)

\* C8 witness: a plugin body two advances deep raised, and run has raised
\* the PluginError of that innermost plugin.
C8_Witness ==
    /\ frames = <<>> /\ outcome.api = "run"
    /\ fault.kind = "Exception" /\ fault.depth >= 2
    /\ outcome.exc = PluginError(fault.who[2], "Exception")

\* C9 as stated: when a top-level require returns without raising, the
\* plugin of every argument is in the executed set, also of an argument
\* that follows one whose plugin was already executed.
C9_EveryArgumentExecuted ==
    (frames = <<>> /\ outcome.api = "require" /\ outcome.exc = NoExc
        /\ outcome.pending # NoSpec)
    => /\ resolve(outcome.pending).exc = NoExc
       /\ resolve(outcome.pending).plugin \in plugins

\* C10: once a call of run has failed, no task is advanced any more in that
\* call: no body starts or resumes, and the tasks on the stack stay
\* suspended where they were.
C10_TeardownsAbandoned ==
    (fault.kind # "none" /\ InRun)
    => /\ Len(log) = fault.at
       /\ \A k \in DOMAIN tasks : taskObj[tasks[k]].st = "suspended"
       /\ frames # <<>> => exc # NoExc

\* C10 witness: run has raised while resuming a task, and another task is
\* left suspended on the stack.
C10_Witness ==
    /\ frames = <<>> /\ outcome.api = "run" /\ outcome.exc # NoExc
    /\ tasks # <<>>
    /\ \E id \in TaskIds : taskObj[id].st = "failed" /\ taskObj[id].phase >= 1

\* run(specs) has returned normally on a pipeline that never failed.
RunReturned == frames = <<>> /\ outcome = Ended("run", NoExc, NoSpec) /\ ~failures

\* C11: in a pipeline where no plugin raises and inputs are finite, every
\* call of run returns; and when it has returned, the task stack is empty
\* and every task ever constructed, so every task ever pushed, is done.
C11_RunDrainsAndTerminates ==
    /\ [](RunReturned =>
            /\ tasks = <<>>
            /\ \A id \in TaskIds : taskObj[id].st = "done")
    /\ ((frames # <<>> /\ frames[1].kind = "run") ~> RunReturned)

\* C11 witness: run has returned after draining a task that suspended twice
\* and another task that suspended once.
C11_Witness ==
    /\ RunReturned /\ tasks = <<>>
    /\ \E i, j \in TaskIds :
          i # j /\ taskObj[i].phase = 2 /\ taskObj[j].phase = 1

\* The advance frames on the call stack.
AdvanceFrames == {k \in DOMAIN frames : frames[k].kind = "advance"}

\* C12: the plugin of every body on the call stack is in the executed set
\* (it was added before the body started), so no plugin has two bodies on
\* the call stack and the nesting of bodies is bounded by the executed set;
\* and a plugin whose re-entrant require was skipped has been invoked once
\* and has one task.
C12_ReentrantRequireSkipped ==
    /\ \A k \in AdvanceFrames : taskObj[frames[k].task].plugin \in plugins
    /\ \A k, m \in AdvanceFrames :
          taskObj[frames[k].task].plugin = taskObj[frames[m].task].plugin => k = m
    /\ Depth(frames) <= Cardinality(plugins)
    /\ \A e \in noted :
          /\ Invocations(e[1]) = 1
          /\ Cardinality({id \in TaskIds : taskObj[id].plugin = e[1]}) = 1

\* C12 witness: B, called from the setup of A, has required A (a cycle) and
\* the require was skipped; both bodies are still on the call stack.
C12_Witness ==
    /\ \E p \in Plugins : noted = {<<p, "cycle", "setup">>} /\ OnCallStack(p)
    /\ Depth(frames) = 2 /\ InBody
    /\ Invocations("a") = 1 /\ Invocations("b") = 1

\* The tasks constructed for plugin p.
TasksOf(p) == {id \in TaskIds : taskObj[id].plugin = p}

\* C13: however many string specs resolve to a callable and wherever they
\* are required from, the callable is invoked at most once and has at most
\* one task; at most one of its aliases made its task, and after another
\* alias was skipped the callable still has been invoked exactly once.
C13_AliasesExecuteOnce ==
    /\ \A p \in Plugins : Invocations(p) <= 1 /\ Cardinality(TasksOf(p)) <= 1
    /\ \A e \in noted : Invocations(e[3]) = 1 /\ Cardinality(TasksOf(e[3])) = 1
    /\ \A d, e \in noted :
          (d[1] = "made" /\ e[1] = "made" /\ d[3] = e[3]) => d[2] = e[2]

\* C13 witness: one string alias of "a" made its task, the other alias was
\* required later and skipped; the calls are over.
C13_Witness ==
    /\ frames = <<>>
    /\ \E made, skipped \in StrSpecs :
          /\ made # skipped
          /\ <<"made", made, "a">> \in noted
          /\ <<"skipped", skipped, "a">> \in noted
    /\ Invocations("a") = 1

\* C14: a step of require in which an exception appears is the failed
\* resolution of a string spec: the exception is the PluginImportError of
\* that spec, caused by the failure of the import; the step invokes no
\* plugin body and constructs no task, and neither that step nor any step
\* that carries the exception outward changes the executed set or the task
\* stack.
C14_ResolutionFailureChangesNothing ==
    [][ /\ (frames # <<>> /\ Top.kind = "require" /\ exc = NoExc /\ exc' # NoExc)
           => /\ \E spec \in StrSpecs :
                    /\ import_from_string(spec).raised # "none"
                    /\ exc' = PluginImportError(spec, import_from_string(spec).raised)
              /\ log' = log /\ taskObj' = taskObj
              /\ plugins' = plugins /\ tasks' = tasks
        /\ (exc # NoExc /\ exc.type = "PluginImportError")
           => (log' = log /\ plugins' = plugins /\ tasks' = tasks)
      ]_vars

\* C14 witness: the string spec mod_c, which the whitelist excludes, has
\* just failed to resolve in a require on a pipeline that has executed "a"
\* and holds a suspended task; "c" was not invoked.
C14_Witness ==
    /\ frames # <<>> /\ Top.kind = "require"
    /\ exc = PluginImportError(<<"str", "mod_c">>, "Exception")
    /\ fault.kind = "resolve" /\ fault.at = Len(log)
    /\ "a" \in plugins /\ "c" \notin plugins /\ Invocations("c") = 0
    /\ tasks # <<>>

\* The tasks on the stack.
OnStack == {tasks[k] : k \in DOMAIN tasks}

\* C15: at every point a task is on the stack if and only if its last
\* advance returned not-done: a task whose advance is in progress, is done
\* or has raised is not on the stack, and every task whose last advance
\* produced an element is, once.
C15_PushedIffNotDone ==
    /\ \A id \in TaskIds : id \in OnStack <=> taskObj[id].st = "suspended"
    /\ \A id \in TaskIds :
          taskObj[id].st = "suspended" =>
              /\ taskObj[id].phase >= 1
              /\ Cardinality({k \in DOMAIN tasks : tasks[k] = id}) = 1
    /\ OnStack \subseteq TaskIds

\* C15 witness: no advance is in progress after run has raised; one task is
\* done, one has failed while being resumed, one is suspended, and the
\* stack holds exactly the suspended one.
C15_Witness ==
    /\ frames = <<>> /\ outcome.api = "run" /\ outcome.exc # NoExc
    /\ \E i, j, k \in TaskIds :
          /\ taskObj[i].st = "done"
          /\ taskObj[j].st = "failed" /\ taskObj[j].phase >= 1
          /\ taskObj[k].st = "suspended"
          /\ tasks = <<k>>

\* The marks of plugin p in the log, in order: one for each advance of its
\* task.
MarksOf(p) == SelectSeq(log, LAMBDA e : e[1] = p)

\* The number of advances of task id begun so far: one for each element
\* its iterator has produced, and one more unless the last advance
\* produced an element.
Advances(id) ==
    taskObj[id].phase + IF taskObj[id].st = "suspended" THEN 0 ELSE 1

\* C16: the n-th advance of a task is the one that calls the plugin if and
\* only if n = 1, and it runs the body from its (n-1)-th yield; a task whose
\* iterator produced k elements has reported not-done on its first k
\* advances, each pulling one element, and is done on advance k + 1 (on its
\* first advance when there is no element).
C16_AdvanceStepsThroughIterator ==
    \A id \in TaskIds :
        LET marks == MarksOf(taskObj[id].plugin)
        IN  /\ taskObj[id].iterator = "iter"
            /\ Len(marks) = Advances(id)
            /\ \A n \in DOMAIN marks : marks[n][2] = n - 1
            /\ taskObj[id].st = "done" => Len(marks) = taskObj[id].phase + 1

\* C16 witness: a task whose iterator had two elements is done after three
\* advances, and a task without elements was done on its first advance.
C16_Witness ==
    \E i, j \in TaskIds :
        /\ taskObj[i].st = "done" /\ taskObj[i].phase = 2
        /\ Len(MarksOf(taskObj[i].plugin)) = 3
        /\ taskObj[j].st = "done" /\ taskObj[j].phase = 0
        /\ Len(MarksOf(taskObj[j].plugin)) = 1

\* C17: a failure undoes nothing.  The plugin of every task ever made, the
\* failed ones included, is in the executed set; a task whose advance
\* raised is not on the stack and its plugin has been invoked once, however
\* often it was required since; every task that is suspended is on the
\* stack, and the stack is in the order of the pushes.
C17_FailureKeepsState ==
    /\ \A id \in TaskIds :
          /\ taskObj[id].plugin \in plugins
          /\ taskObj[id].st = "failed" =>
                (id \notin OnStack /\ Invocations(taskObj[id].plugin) = 1)
          /\ taskObj[id].st = "suspended" => id \in OnStack
    /\ \A k, m \in DOMAIN tasks :
          k < m => taskObj[tasks[k]].stamp < taskObj[tasks[m]].stamp

\* C17 witness: on a pipeline where "b" suspended and the body of "a" then
\* raised, a later top-level require has found its argument "a" executed
\* and returned without raising; "a" was invoked once and "b" is still on
\* the stack.
C17_Witness ==
    /\ frames = <<>> /\ fault = NoFault /\ failures
    /\ outcome.api = "require" /\ outcome.exc = NoExc /\ outcome.pending # NoSpec
    /\ plugins = {"a", "b"} /\ Len(taskObj) = 2
    /\ taskObj[1].plugin = "b" /\ taskObj[1].st = "suspended" /\ tasks = <<1>>
    /\ taskObj[2].plugin = "a" /\ taskObj[2].st = "failed"
    /\ Invocations("a") = 1

\* Task id has been resumed by the loop of run and has suspended again.
ResumedAndSuspended(id) ==
    taskObj[id].st = "suspended" /\ taskObj[id].phase >= 2

\* C18: a task that the loop of run has resumed and that is not done is
\* either being advanced or on top of the stack with control in the loop of
\* run, whose next iteration pops it: whatever was pushed during its
\* resumed advance lies below it, and no other task is resumed before it.
C18_ResumedTaskStaysOnTop ==
    \A id \in TaskIds :
        ResumedAndSuspended(id) =>
            /\ Len(frames) = 1 /\ Top.kind = "run" /\ ~Top.open /\ exc = NoExc
            /\ TasksPop(tasks).task = id
            /\ \A k \in DOMAIN tasks :
                  taskObj[tasks[k]].stamp <= taskObj[id].stamp

\* C18 witness: the resumed task has required another plugin in its
\* teardown phase, which suspended, and has then suspended again itself:
\* it lies on top of the stack, the other one below it.
C18_Witness ==
    \E id, other \in TaskIds :
        /\ ResumedAndSuspended(id)
        /\ taskObj[other].by = taskObj[id].plugin /\ ~taskObj[other].insetup
        /\ taskObj[other].st = "suspended"
        /\ tasks = <<other, id>>

\* C19: in every state no two positions of the stack hold the same task or
\* tasks of the same plugin, and the plugin of every task on the stack is
\* in the executed set; and no step takes a member out of the executed set.
C19_StackAndExecutedSet ==
    /\ [](/\ \A k, m \in DOMAIN tasks :
                taskObj[tasks[k]].plugin = taskObj[tasks[m]].plugin => k = m
          /\ \A k \in DOMAIN tasks : taskObj[tasks[k]].plugin \in plugins)
    /\ [][plugins \subseteq plugins']_vars

\* C19 witness: the stack holds three suspended tasks, one for each plugin,
\* and control is in the loop of run.
C19_Witness ==
    /\ Len(tasks) = 3 /\ plugins = Plugins
    /\ {taskObj[tasks[k]].plugin : k \in DOMAIN tasks} = Plugins
    /\ Len(frames) = 1 /\ Top.kind = "run"

\* Sequence s is an initial part of sequence t.
IsPrefix(s, t) == Len(s) <= Len(t) /\ SubSeq(t, 1, Len(s)) = s

\* Control is in the body of run itself, not in a call it has made.
InRunLoop == Len(frames) = 1 /\ Top.kind = "run"

\* The step appends a mark to the log: an advance begins.
AdvanceBegins == Len(log') = Len(log) + 1

\* C20: a step taken anywhere but in the body of run itself, so every step
\* of require and of what require calls, leaves the tasks on the stack in
\* place and in order, and an advance it begins is the first advance of a
\* task made in that step; an advance of an older task begins only in the
\* while loop of run, and from then on the for loop of that call of run
\* requires no further spec.
C20_RequireNeverResumes ==
    [][ /\ (frames # <<>> /\ ~InRunLoop)
           => /\ IsPrefix(tasks, tasks')
              /\ AdvanceBegins =>
                    /\ log'[Len(log')][2] = 0
                    /\ Len(taskObj') = Len(taskObj) + 1
        /\ (AdvanceBegins /\ log'[Len(log')][2] >= 1)
           => (InRunLoop /\ ~frames'[1].open)
        /\ (frames # <<>> /\ InRun /\ ~frames[1].open /\ frames' # <<>>)
           => /\ ~frames'[1].open
              /\ ~(InRunLoop /\ Len(frames') = 2 /\ frames'[2].kind = "require")
      ]_vars

\* C20 witness: three plugins were required by top-level require calls on a
\* pipeline that never failed; the first two suspended and were on the
\* stack while the third was executed; the last require has returned, the
\* two are on the stack in order, and no teardown code has run.
C20_Witness ==
    /\ frames = <<>> /\ outcome = Ended("require", NoExc, NoSpec) /\ ~failures
    /\ Len(taskObj) = 3 /\ \A id \in TaskIds : taskObj[id].by = "none"
    /\ tasks = <<1, 2>> /\ taskObj[3].st = "done"
    /\ \A p \in Plugins : ~Resumed(p)

====
